---- MODULE Spec2Model ----
(***************************************************************************)
(* A model of lemurs: the logout handshake over two unix sockets           *)
(* (src/ipc.rs), the session supervisor PostLoginEnvironment::start        *)
(* (src/post_login/mod.rs, src/tty.rs), and the login form of              *)
(* src/ui/mod.rs.                                                          *)
(***************************************************************************)
EXTENDS Integers, Sequences, FiniteSets, TLC

\* ------------------------------------------------------------------ bounds
MaxEnv == 2      \* connections of foreign processes, to either socket path
MaxAttempts == 2 \* submissions of the login form

\* Two calls of PostLoginEnvironment::start and two of send_for_logout, in
\* any interleaving: at once, or one after the other has returned.
Sup == {1, 2}
Cli == {1, 2}

\* Bytes a foreign process writes: Logout, Ack and one that is neither.
EnvBytes == {0, 1, 2}

VARIABLES
    \* the filesystem and the kernel's listening sockets
    inbox_file,       \* INBOX_SOCKET_PATH exists
    inbox_listener,   \* the start call holding the bound inbox listener, 0: none
    inbox_q,          \* what inbox_listener.incoming() will yield, in order
    outbox_file,      \* OUTBOX_SOCKET_PATH exists
    outbox_listener,  \* the send_for_logout call holding the outbox listener, 0: none
    outbox_q,         \* what the outbox listener's incoming() will yield
    env_in, env_out,  \* foreign connections made so far
    \* PostLoginEnvironment::start, per call
    spc,              \* position in start
    skind,            \* the variant of self: "X", "Wayland", "Shell"
    sres,             \* what start returned
    sbind,            \* what UnixListener::bind returned in IncomingSocket::new
    ignored,          \* incoming items block_handle went past without returning
    nacked,           \* a Logout was handled whose Ack could not be sent
    x_server,         \* the display server child
    gui_environment,  \* the desktop child
    tty,              \* the outcome of switch_to_lemurs_tty
    teardown,         \* the teardown steps attempted, in order
    user_info,        \* the AuthUserInfo moved into start
    \* send_for_logout, per call
    cpc, cres, cconn,
    cexit,            \* how main's logout branch left the process
    \* run_app: the App and the loop's position
    ui_pc,            \* "poll": before try_recv and draw; "read": in event::read
    input_mode,       \* app.input_mode
    status_message,   \* app.status_message
    auth_receiver,    \* app.auth_receiver: the attempt whose Receiver is held, 0: None
    last_key,         \* the key event::read returned in this pass of the loop
    attempts,         \* submissions so far
    \* login, per attempt
    tpc,              \* position in login
    chan,             \* the attempt's channel: sent and not yet received
    receiver,         \* the attempt's Receiver: "none", "held", "dropped"
    notified,         \* every notification the task's send delivered, in order
    auth,             \* what open_session returned
    authenticator,    \* the PAM handle: "none", "held", "dropped"
    x_started,        \* graphical_environment.start returned Ok
    desktop_started,  \* graphical_environment.desktop was entered
    x_stopped,        \* graphical_environment.stop was called
    \* the IpcRequest conversions, applied to one input
    codec_msg, codec_byte, codec_out

ipcVars == <<inbox_file, inbox_listener, inbox_q, outbox_file, outbox_listener,
             outbox_q, env_in, env_out, spc, skind, sres, sbind, ignored,
             nacked,
             x_server,
             gui_environment, tty, teardown, user_info, cpc, cres, cconn,
             cexit>>

uiVars == <<ui_pc, input_mode, status_message, auth_receiver, last_key,
            attempts, tpc, chan, receiver, notified, auth, authenticator,
            x_started, desktop_started, x_stopped>>

codecVars == <<codec_msg, codec_byte, codec_out>>

vars == <<ipcVars, uiVars, codecVars>>

\* What a step of one part leaves alone: the other parts.
nonIpc == <<uiVars, codecVars>>
nonUi == <<ipcVars, codecVars>>
nonCodec == <<ipcVars, uiVars>>

\* ------------------------------------------------------------ IpcRequest
\* impl TryFrom<u8> for IpcRequest
TryFrom(num) ==
    IF num = 0 THEN "Logout" ELSE IF num = 1 THEN "Ack" ELSE "Err"

From_Zero(msg) ==
    0

\* impl From<IpcRequest> for u8
From(msg) ==
    IF msg = "Logout" THEN 0 ELSE 1

\* One item of listener.incoming(): a failed accept, or a connection whose
\* read fails, yields no byte, yields one byte, or never yields (the peer
\* keeps the connection open and writes nothing).
Item(from, ev, b) == [from |-> from, ev |-> ev, b |-> b]
NoItem == Item(0, "None", 0)

\* The logout process has not exited.
NoExit == [code |-> -1, msg |-> "none", reason |-> "none"]

\* UnixStream::connect(path): the path must exist and be listened on.
ConnectResult(file, listener) ==
    IF ~file THEN "NotFound"
    ELSE IF listener = 0 THEN "ConnectionRefused"
    ELSE "Ok"

BindResult_Overwrites(file) ==
    "Ok"

\* UnixListener::bind(path): fails when the path exists, bound or stale.
BindResult(file) ==
    IF file THEN "AddrInUse" ELSE "Ok"

Handler_StopsOnSendError(request, sent) ==
    IF request = "Logout" THEN "stop" ELSE "continue"

\* The closure start passes to block_handle, given whether
\* message_to_outbox(Ack) succeeded.
Handler(request, sent) ==
    IF request = "Logout"
    THEN (IF sent THEN "stop" ELSE "err")
    ELSE "continue"

LoopReturns_OnHandlerErr(item, sent) ==
    /\ item.ev = "Read1"
    /\ TryFrom(item.b) # "Err"
    /\ Handler(TryFrom(item.b), sent) \in {"stop", "err"}

\* block_handle's match on one incoming item: does the loop return?
LoopReturns(item, sent) ==
    /\ item.ev = "Read1"
    /\ TryFrom(item.b) # "Err"
    /\ Handler(TryFrom(item.b), sent) = "stop"

\* block_handle calls the handler (and so message_to_outbox) on this item.
CallsSend(item) ==
    item.ev = "Read1" /\ TryFrom(item.b) = "Logout"

ReplyResult_AnyMessage(item) ==
    IF item.ev = "AcceptErr" THEN "AcceptErr"
    ELSE IF item.ev = "ReadErr" THEN "ReadErr"
    ELSE IF item.ev = "Silent" THEN "TimedOut"
    ELSE IF item.ev = "Read1"
         THEN (IF TryFrom(item.b) # "Err" THEN "Ok" ELSE "UnexpectedMessage")
    ELSE "InvalidAmount"

\* send_for_logout's result from the one connection it accepts.
ReplyResult(item) ==
    IF item.ev = "AcceptErr" THEN "AcceptErr"
    ELSE IF item.ev = "ReadErr" THEN "ReadErr"
    ELSE IF item.ev = "Silent" THEN "TimedOut"
    ELSE IF item.ev = "Read1"
         THEN (IF TryFrom(item.b) = "Ack" THEN "Ok" ELSE "UnexpectedMessage")
    ELSE "InvalidAmount"

\* ------------------------------------------------------------------ Init
IpcInit ==
    /\ inbox_file = FALSE /\ inbox_listener = 0 /\ inbox_q = <<>>
    /\ outbox_file = FALSE /\ outbox_listener = 0 /\ outbox_q = <<>>
    /\ env_in = 0 /\ env_out = 0
    /\ spc = [s \in Sup |-> "idle"]
    /\ skind = [s \in Sup |-> "none"]
    /\ sres = [s \in Sup |-> "none"]
    /\ sbind = [s \in Sup |-> "none"]
    /\ ignored = [s \in Sup |-> 0]
    /\ nacked = [s \in Sup |-> FALSE]
    /\ x_server = [s \in Sup |-> "none"]
    /\ gui_environment = [s \in Sup |-> "none"]
    /\ tty = [s \in Sup |-> "none"]
    /\ teardown = [s \in Sup |-> <<>>]
    /\ user_info = [s \in Sup |-> "none"]
    /\ cpc = [c \in Cli |-> "idle"]
    /\ cres = [c \in Cli |-> "none"]
    /\ cconn = [c \in Cli |-> NoItem]
    /\ cexit = [c \in Cli |-> NoExit]

Att == 1..MaxAttempts

\* No key event is bound: `key` only lives inside the `if let` of one pass.
NoKey == [code |-> "None", shift |-> FALSE]

UiInit ==
    /\ ui_pc = "poll"
    /\ input_mode = "Normal"
    /\ status_message = "None"
    /\ auth_receiver = 0
    /\ last_key = NoKey
    /\ attempts = 0
    /\ tpc = [a \in Att |-> "unspawned"]
    /\ chan = [a \in Att |-> <<>>]
    /\ receiver = [a \in Att |-> "none"]
    /\ notified = [a \in Att |-> <<>>]
    /\ auth = [a \in Att |-> "none"]
    /\ authenticator = [a \in Att |-> "none"]
    /\ x_started = [a \in Att |-> FALSE]
    /\ desktop_started = [a \in Att |-> FALSE]
    /\ x_stopped = [a \in Att |-> FALSE]

CodecIdle ==
    codec_msg = "none" /\ codec_byte = -1 /\ codec_out = "unset"

Init == IpcInit /\ UiInit /\ CodecIdle

\* --------------------------------------------- PostLoginEnvironment::start
fsVars == <<inbox_file, inbox_listener, inbox_q>>
outVars == <<outbox_file, outbox_listener, outbox_q>>
envVars == <<env_in, env_out>>
cliVars == <<cpc, cres, cconn, cexit>>
childVars == <<x_server, gui_environment, tty, teardown, ignored, nacked>>

Return_KeepsUserInfo(s, res) ==
    /\ spc' = [spc EXCEPT ![s] = "returned"]
    /\ sres' = [sres EXCEPT ![s] = res]
    /\ user_info' = [user_info EXCEPT ![s] =
                        IF res = "Ok" THEN "dropped" ELSE "valid"]
    /\ IF inbox_listener = s
       THEN inbox_listener' = 0 /\ inbox_q' = <<>>
       ELSE UNCHANGED <<inbox_listener, inbox_q>>

\* start returns `res`: every local and the moved-in user_info are dropped.
\* Dropping the UnixListener closes it (pending connections are lost) and
\* leaves the socket file in place.
Return(s, res) ==
    /\ spc' = [spc EXCEPT ![s] = "returned"]
    /\ sres' = [sres EXCEPT ![s] = res]
    /\ user_info' = [user_info EXCEPT ![s] = "dropped"]
    /\ IF inbox_listener = s
       THEN inbox_listener' = 0 /\ inbox_q' = <<>>
       ELSE UNCHANGED <<inbox_listener, inbox_q>>

MatchSelf_AllX(k) ==
    "X"

\* `match self` in start: the arm taken for each variant.
MatchSelf(k) ==
    IF k = "X" THEN "X" ELSE "unimplemented"

\* start up to and including IncomingSocket::new: the environment is set,
\* then `match self`.  Wayland and Shell reach unimplemented!(), which panics
\* and unwinds out of start.  X binds the inbox, then chowns it; either
\* failure is OpenInbox.
SStart(s) ==
    /\ spc[s] = "idle"
    /\ \E k \in {"X", "Wayland", "Shell"} :
        /\ skind' = [skind EXCEPT ![s] = k]
        /\ IF MatchSelf(k) = "unimplemented"
           THEN Return(s, "panic") /\ UNCHANGED <<inbox_file, sbind>>
           ELSE \/ /\ BindResult(inbox_file) # "Ok"
                   /\ sbind' = [sbind EXCEPT ![s] = BindResult(inbox_file)]
                   /\ Return(s, "OpenInbox")
                   /\ UNCHANGED inbox_file
                \/ /\ BindResult(inbox_file) = "Ok"
                   /\ sbind' = [sbind EXCEPT ![s] = "Ok"]
                   /\ inbox_file' = TRUE
                   /\ \/ /\ spc' = [spc EXCEPT ![s] = "setup_x"]
                         /\ user_info' = [user_info EXCEPT ![s] = "valid"]
                         /\ inbox_listener' = s
                         /\ inbox_q' = <<>>
                         /\ UNCHANGED sres
                      \/ \* chown fails: the listener just bound is dropped
                         /\ spc' = [spc EXCEPT ![s] = "returned"]
                         /\ sres' = [sres EXCEPT ![s] = "OpenInbox"]
                         /\ user_info' = [user_info EXCEPT ![s] = "dropped"]
                         /\ UNCHANGED <<inbox_listener, inbox_q>>
    /\ UNCHANGED <<outVars, envVars, childVars, cliVars>>
    /\ UNCHANGED nonIpc

SSetupX_GoesOn(s) ==
    /\ spc[s] = "setup_x"
    /\ \/ /\ x_server' = [x_server EXCEPT ![s] = "running"]
          /\ spc' = [spc EXCEPT ![s] = "start_env"]
          /\ UNCHANGED <<sres, user_info, inbox_listener, inbox_q>>
       \/ /\ sres' = [sres EXCEPT ![s] = "XSetupError"]
          /\ spc' = [spc EXCEPT ![s] = "start_env"]
          /\ UNCHANGED <<x_server, user_info, inbox_listener, inbox_q>>
    /\ UNCHANGED <<inbox_file, skind, sbind, outVars, envVars, gui_environment,
                   tty, teardown, ignored, nacked, cliVars>>
    /\ UNCHANGED nonIpc

\* x::setup_x(&user_info).map_err(XSetupError)?
SSetupX(s) ==
    /\ spc[s] = "setup_x"
    /\ \/ /\ x_server' = [x_server EXCEPT ![s] = "running"]
          /\ spc' = [spc EXCEPT ![s] = "start_env"]
          /\ UNCHANGED <<sres, user_info, inbox_listener, inbox_q>>
       \/ /\ Return(s, "XSetupError")
          /\ UNCHANGED x_server
    /\ UNCHANGED <<inbox_file, skind, sbind, outVars, envVars, gui_environment,
                   tty, teardown, ignored, nacked, cliVars>>
    /\ UNCHANGED nonIpc

\* What the failure path of start_env does to the display server: nothing.
\* The `?` returns at once and x_server (a child handle) is only dropped.
StartEnvFailureXServer(x) == x

\* x::start_env(&user_info, xinitrc_path).map_err(XStartEnvError)?
SStartEnv(s) ==
    /\ spc[s] = "start_env"
    /\ \/ /\ gui_environment' = [gui_environment EXCEPT ![s] = "running"]
          /\ spc' = [spc EXCEPT ![s] = "block_handle"]
          /\ UNCHANGED <<sres, user_info, inbox_listener, inbox_q, x_server>>
       \/ /\ Return(s, "XStartEnvError")
          /\ x_server' = [x_server EXCEPT ![s] = StartEnvFailureXServer(@)]
          /\ UNCHANGED gui_environment
    /\ UNCHANGED <<inbox_file, skind, sbind, outVars, envVars, tty, teardown,
                   ignored, nacked, cliVars>>
    /\ UNCHANGED nonIpc

\* One iteration of block_handle's loop over listener.incoming(), with the
\* handler of start: on Logout, message_to_outbox(Ack) and stop.
SLoop(s) ==
    /\ spc[s] = "block_handle"
    /\ inbox_listener = s
    /\ inbox_q # <<>>
    /\ LET item == Head(inbox_q)
           sent == ConnectResult(outbox_file, outbox_listener) = "Ok"
       IN /\ inbox_q' = Tail(inbox_q)
          /\ IF CallsSend(item) /\ sent
             THEN outbox_q' = Append(outbox_q, Item(s, "Read1", From("Ack")))
             ELSE UNCHANGED outbox_q
          /\ IF LoopReturns(item, sent)
             THEN spc' = [spc EXCEPT ![s] = "switch_tty"] /\ UNCHANGED ignored
             ELSE ignored' = [ignored EXCEPT ![s] = @ + 1] /\ UNCHANGED spc
          /\ IF CallsSend(item) /\ ~sent
             THEN nacked' = [nacked EXCEPT ![s] = TRUE]
             ELSE UNCHANGED nacked
    /\ UNCHANGED <<inbox_file, inbox_listener, outbox_file, outbox_listener,
                   envVars, skind, sres, sbind, x_server, gui_environment, tty,
                   teardown, user_info, cliVars>>
    /\ UNCHANGED nonIpc

\* switch_to_lemurs_tty(config.tty): a failure is logged, nothing more.
STty(s) ==
    /\ spc[s] = "switch_tty"
    /\ \E ok \in BOOLEAN :
        tty' = [tty EXCEPT ![s] = IF ok THEN "switched" ELSE "failed"]
    /\ teardown' = [teardown EXCEPT ![s] = Append(@, "tty")]
    /\ spc' = [spc EXCEPT ![s] = "kill_gui"]
    /\ UNCHANGED <<fsVars, outVars, envVars, skind, sres, sbind, x_server,
                   gui_environment, ignored, nacked, user_info, cliVars>>
    /\ UNCHANGED nonIpc

SKillGui_Propagates(s) ==
    /\ spc[s] = "kill_gui"
    /\ teardown' = [teardown EXCEPT ![s] = Append(@, "gui")]
    /\ \/ /\ gui_environment' = [gui_environment EXCEPT ![s] = "killed"]
          /\ spc' = [spc EXCEPT ![s] = "kill_x"]
          /\ UNCHANGED <<sres, user_info, inbox_listener, inbox_q>>
       \/ /\ gui_environment' = [gui_environment EXCEPT ![s] = "kill_failed"]
          /\ Return(s, "KillError")
    /\ UNCHANGED <<inbox_file, outVars, envVars, skind, sbind, x_server, tty,
                   ignored, nacked, cliVars>>
    /\ UNCHANGED nonIpc

\* gui_environment.kill(): a failure is a warning.
SKillGui(s) ==
    /\ spc[s] = "kill_gui"
    /\ \E ok \in BOOLEAN :
        gui_environment' = [gui_environment EXCEPT ![s] =
                               IF ok THEN "killed" ELSE "kill_failed"]
    /\ teardown' = [teardown EXCEPT ![s] = Append(@, "gui")]
    /\ spc' = [spc EXCEPT ![s] = "kill_x"]
    /\ UNCHANGED <<fsVars, outVars, envVars, skind, sres, sbind, x_server, tty,
                   ignored, nacked, user_info, cliVars>>
    /\ UNCHANGED nonIpc

\* x_server.kill(), drop(user_info), Ok(())
SKillX(s) ==
    /\ spc[s] = "kill_x"
    /\ \E ok \in BOOLEAN :
        x_server' = [x_server EXCEPT ![s] =
                        IF ok THEN "killed" ELSE "kill_failed"]
    /\ teardown' = [teardown EXCEPT ![s] = Append(@, "x")]
    /\ Return(s, "Ok")
    /\ UNCHANGED <<inbox_file, outVars, envVars, skind, sbind, gui_environment,
                   tty, ignored, nacked, cliVars>>
    /\ UNCHANGED nonIpc

SupNext(s) ==
    SSetupX(s) \/ SStartEnv(s) \/ SLoop(s) \/ STty(s)
        \/ SKillGui(s) \/ SKillX(s)

\* ---------------------------------------------------------- send_for_logout
supVars == <<spc, skind, sres, sbind, childVars, user_info>>

LogoutExit_Generic(res) ==
    IF res = "Ok"
    THEN [code |-> 0, msg |-> "Logging out...", reason |-> "none"]
    ELSE [code |-> 1, msg |-> "Failed to communicate with Lemurs session",
          reason |-> res]

\* main's match on the result of ipc::send_for_logout(): what is printed and
\* the code passed to process::exit.
LogoutExit(res) ==
    IF res = "Ok"
    THEN [code |-> 0, msg |-> "Logging out...", reason |-> "none"]
    ELSE IF res = "PermissionDenied"
    THEN [code |-> 1, msg |-> "No permission to logout", reason |-> "none"]
    ELSE [code |-> 1, msg |-> "Failed to communicate with Lemurs session",
          reason |-> res]

\* send_for_logout returns `res`; its listener, if bound, is dropped; main
\* reports the result and exits.
CReturn(c, res) ==
    /\ cpc' = [cpc EXCEPT ![c] = "returned"]
    /\ cres' = [cres EXCEPT ![c] = res]
    /\ cexit' = [cexit EXCEPT ![c] = LogoutExit(res)]
    /\ IF outbox_listener = c
       THEN outbox_listener' = 0 /\ outbox_q' = <<>>
       ELSE UNCHANGED <<outbox_listener, outbox_q>>

CBind_IgnoresBindError(c) ==
    /\ cpc[c] = "idle"
    /\ \/ /\ BindResult(outbox_file) # "Ok"
          /\ cpc' = [cpc EXCEPT ![c] = "send"]
          /\ UNCHANGED <<outbox_file, outbox_listener, outbox_q, cres, cexit>>
       \/ /\ BindResult(outbox_file) = "Ok"
          /\ outbox_file' = TRUE
          /\ outbox_listener' = c
          /\ outbox_q' = <<>>
          /\ cpc' = [cpc EXCEPT ![c] = "send"]
          /\ UNCHANGED <<cres, cexit>>
    /\ UNCHANGED <<fsVars, envVars, supVars, cconn>>
    /\ UNCHANGED nonIpc

\* main's logout branch calls ipc::send_for_logout(), which starts with
\* UnixListener::bind(OUTBOX_SOCKET_PATH)?
CBind(c) ==
    /\ cpc[c] = "idle"
    /\ \/ /\ BindResult(outbox_file) # "Ok"
          /\ CReturn(c, BindResult(outbox_file))
          /\ UNCHANGED outbox_file
       \/ /\ BindResult(outbox_file) = "Ok"
          /\ \/ /\ outbox_file' = TRUE
                /\ outbox_listener' = c
                /\ outbox_q' = <<>>
                /\ cpc' = [cpc EXCEPT ![c] = "send"]
                /\ UNCHANGED <<cres, cexit>>
             \/ \* the caller may not create the socket file
                /\ CReturn(c, "PermissionDenied")
                /\ UNCHANGED outbox_file
    /\ UNCHANGED <<fsVars, envVars, supVars, cconn>>
    /\ UNCHANGED nonIpc

\* message_to_inbox(IpcRequest::Logout)?
CSend(c) ==
    /\ cpc[c] = "send"
    /\ \/ /\ ConnectResult(inbox_file, inbox_listener) # "Ok"
          /\ CReturn(c, ConnectResult(inbox_file, inbox_listener))
          /\ UNCHANGED inbox_q
       \/ /\ ConnectResult(inbox_file, inbox_listener) = "Ok"
          /\ \/ /\ inbox_q' = Append(inbox_q, Item(c, "Read1", From("Logout")))
                /\ cpc' = [cpc EXCEPT ![c] = "accept"]
                /\ UNCHANGED <<cres, cexit, outbox_listener, outbox_q>>
             \/ \* the caller may not write to the socket file
                /\ CReturn(c, "PermissionDenied")
                /\ UNCHANGED inbox_q
    /\ UNCHANGED <<inbox_file, inbox_listener, outbox_file, envVars, supVars,
                   cconn>>
    /\ UNCHANGED nonIpc

\* listener.incoming().next() blocks until a connection arrives; the read on
\* it has LOGOUT_WAIT_TIMEOUT.
CAccept(c) ==
    /\ cpc[c] = "accept"
    /\ outbox_listener = c
    /\ outbox_q # <<>>
    /\ cconn' = [cconn EXCEPT ![c] = Head(outbox_q)]
    /\ CReturn(c, ReplyResult(Head(outbox_q)))
    /\ UNCHANGED <<fsVars, outbox_file, envVars, supVars>>
    /\ UNCHANGED nonIpc

CliNext(c) ==
    CSend(c) \/ CAccept(c)

\* ------------------------------------------------------- foreign processes
\* Any process may connect to a bound socket path and write what it likes.
EnvInbox ==
    /\ env_in + env_out < MaxEnv
    /\ ConnectResult(inbox_file, inbox_listener) = "Ok"
    /\ \E it \in {Item(0, "AcceptErr", 0), Item(0, "ReadErr", 0),
                  Item(0, "Read0", 0)}
                 \cup {Item(0, "Read1", b) : b \in EnvBytes} :
        inbox_q' = Append(inbox_q, it)
    /\ env_in' = env_in + 1
    /\ UNCHANGED <<inbox_file, inbox_listener, outVars, env_out, supVars, cliVars>>
    /\ UNCHANGED nonIpc

EnvOutbox ==
    /\ env_in + env_out < MaxEnv
    /\ ConnectResult(outbox_file, outbox_listener) = "Ok"
    /\ \E it \in {Item(0, "AcceptErr", 0), Item(0, "ReadErr", 0),
                  Item(0, "Read0", 0), Item(0, "Silent", 0)}
                 \cup {Item(0, "Read1", b) : b \in EnvBytes} :
        outbox_q' = Append(outbox_q, it)
    /\ env_out' = env_out + 1
    /\ UNCHANGED <<fsVars, outbox_file, outbox_listener, env_in, supVars, cliVars>>
    /\ UNCHANGED nonIpc

\* ------------------------------------------------------------------- Spec
IpcNext ==
    \/ \E s \in Sup : SStart(s) \/ SupNext(s)
    \/ \E c \in Cli : CBind(c) \/ CliNext(c)
    \/ EnvInbox
    \/ EnvOutbox

Next == IpcNext

Spec == Init /\ [][Next]_vars

\* A call that has started keeps running: each enabled step of start and of
\* send_for_logout is eventually taken.  Whether a call is made at all, and
\* what foreign processes do, is left open.
FairSpec ==
    /\ Spec
    /\ \A s \in Sup : WF_vars(SupNext(s))
    /\ \A c \in Cli : WF_vars(CliNext(c))

\* ---------------------------------------------------------------- InputMode
InputMode == {"Normal", "WMSelect", "Username", "Password"}

InputMode_next_Wraps(mode) ==
    CASE mode = "Normal" -> "WMSelect"
      [] mode = "WMSelect" -> "Username"
      [] mode = "Username" -> "Password"
      [] mode = "Password" -> "Normal"

\* InputMode::next
InputMode_next(mode) ==
    CASE mode = "Normal" -> "WMSelect"
      [] mode = "WMSelect" -> "Username"
      [] mode = "Username" -> "Password"
      [] mode = "Password" -> "Password"

\* InputMode::prev
InputMode_prev(mode) ==
    CASE mode = "Normal" -> "Normal"
      [] mode = "WMSelect" -> "Normal"
      [] mode = "Username" -> "WMSelect"
      [] mode = "Password" -> "Username"

\* The key events event::read can return: the codes run_app matches on, one
\* character key for all the others, each with or without Shift.
Keys == [code : {"Enter", "Down", "Up", "Tab", "Esc", "Char"}, shift : BOOLEAN]

IsSubmit_AnyMode(key, mode) ==
    key.code = "Enter"

\* run_app's first match arm: (KeyCode::Enter, &InputMode::Password)
IsSubmit(key, mode) ==
    key.code = "Enter" /\ mode = "Password"

\* run_app's other match arms: the input mode after `key` in `mode`.
KeyMode(key, mode) ==
    CASE key.code \in {"Enter", "Down"} -> InputMode_next(mode)
      [] key.code = "Up" -> InputMode_prev(mode)
      [] key.code = "Tab" ->
            (IF key.shift THEN InputMode_prev(mode) ELSE InputMode_next(mode))
      [] key.code = "Esc" -> "Normal"
      [] OTHER -> mode

\* -------------------------------------------------------------------- login
taskVars == <<tpc, chan, notified, auth, authenticator, x_started,
              desktop_started, x_stopped>>

\* status_send.send(msg).expect("MSPC failed!"): the message is queued while
\* the Receiver lives; once it is dropped send returns Err and expect panics.
\* The panic unwinds login, dropping an authenticator it holds.
SendExpect(a, msg, then, held) ==
    IF receiver[a] = "held"
    THEN /\ chan' = [chan EXCEPT ![a] = Append(@, msg)]
         /\ notified' = [notified EXCEPT ![a] = Append(@, msg)]
         /\ tpc' = [tpc EXCEPT ![a] = then]
         /\ authenticator' = [authenticator EXCEPT ![a] =
                IF held THEN (IF then = "done" THEN "dropped" ELSE "held") ELSE @]
    ELSE /\ tpc' = [tpc EXCEPT ![a] = "panicked"]
         /\ authenticator' = [authenticator EXCEPT ![a] =
                IF held THEN "dropped" ELSE @]
         /\ UNCHANGED <<chan, notified>>

uiLoopVars == <<ui_pc, input_mode, status_message, auth_receiver, last_key,
                attempts, receiver>>

\* status_send.send(Some(StatusMessage::Authenticating))
TAuthenticating(a) ==
    /\ tpc[a] = "spawned"
    /\ SendExpect(a, "Authenticating", "open_session", FALSE)
    /\ UNCHANGED <<uiLoopVars, auth, x_started, desktop_started, x_stopped>>
    /\ UNCHANGED nonUi

\* open_session(username, password), then PamError and return, or LoggingIn
TOpenSession(a) ==
    /\ tpc[a] = "open_session"
    /\ \/ /\ auth' = [auth EXCEPT ![a] = "failed"]
          /\ SendExpect(a, "PamError", "done", FALSE)
       \/ /\ auth' = [auth EXCEPT ![a] = "ok"]
          /\ SendExpect(a, "LoggingIn", "x_start", TRUE)
    /\ UNCHANGED <<uiLoopVars, x_started, desktop_started, x_stopped>>
    /\ UNCHANGED nonUi

\* graphical_environment.start(&passwd_entry)
TStartX(a) ==
    /\ tpc[a] = "x_start"
    /\ \/ /\ SendExpect(a, "FailedGraphicalEnvironment", "done", TRUE)
          /\ UNCHANGED x_started
       \/ /\ x_started' = [x_started EXCEPT ![a] = TRUE]
          /\ tpc' = [tpc EXCEPT ![a] = "desktop"]
          /\ UNCHANGED <<chan, notified, authenticator>>
    /\ UNCHANGED <<uiLoopVars, auth, desktop_started, x_stopped>>
    /\ UNCHANGED nonUi

\* graphical_environment.desktop(initrc_path, &passwd_entry) returns: with an
\* error, or when the desktop has shut down, and then send(None).
TDesktop(a) ==
    /\ tpc[a] = "desktop"
    /\ desktop_started' = [desktop_started EXCEPT ![a] = TRUE]
    /\ \/ SendExpect(a, "FailedDesktop", "done", TRUE)
       \/ SendExpect(a, "Cleared", "stop", TRUE)
    /\ UNCHANGED <<uiLoopVars, auth, x_started, x_stopped>>
    /\ UNCHANGED nonUi

\* graphical_environment.stop(); drop(authenticator)
TStop(a) ==
    /\ tpc[a] = "stop"
    /\ x_stopped' = [x_stopped EXCEPT ![a] = TRUE]
    /\ authenticator' = [authenticator EXCEPT ![a] = "dropped"]
    /\ tpc' = [tpc EXCEPT ![a] = "done"]
    /\ UNCHANGED <<uiLoopVars, chan, notified, auth, x_started, desktop_started>>
    /\ UNCHANGED nonUi

TaskNext(a) ==
    TAuthenticating(a) \/ TOpenSession(a) \/ TStartX(a) \/ TDesktop(a)
        \/ TStop(a)

\* ------------------------------------------------------------------ run_app
\* run_app returns an io::Error through `?`, or unwinds from a panic: the App
\* it owns is dropped, and with it the Receiver it holds.
RunAppEnds ==
    /\ ui_pc' = "ended"
    /\ auth_receiver' = 0
    /\ receiver' = [r \in Att |->
          IF r = auth_receiver THEN "dropped" ELSE receiver[r]]

UiPoll_Blocking ==
    /\ ui_pc = "poll"
    /\ auth_receiver # 0 => chan[auth_receiver] # <<>>
    /\ ui_pc' = "read"
    /\ IF auth_receiver # 0
       THEN LET a == auth_receiver
                msg == Head(chan[a])
            IN /\ chan' = [chan EXCEPT ![a] = Tail(@)]
               /\ status_message' = IF msg = "Cleared" THEN "None" ELSE msg
               /\ IF msg = "Cleared"
                  THEN /\ auth_receiver' = 0
                       /\ receiver' = [receiver EXCEPT ![a] = "dropped"]
                  ELSE UNCHANGED <<auth_receiver, receiver>>
       ELSE UNCHANGED <<chan, status_message, auth_receiver, receiver>>
    /\ last_key' = NoKey
    /\ UNCHANGED <<input_mode, attempts, tpc, notified, auth,
                   authenticator, x_started, desktop_started, x_stopped>>
    /\ UNCHANGED nonUi

TryRecv_Newest(q) ==
    q[Len(q)]

\* rcv.try_recv() on a channel holding messages: the oldest one.
TryRecv(q) ==
    Head(q)

\* The head of the loop: try_recv on the held Receiver, then draw.  Some(msg)
\* is displayed; None is displayed as no status and the Receiver is let go;
\* an empty or a disconnected channel changes nothing.  terminal.draw(..)?
\* then either succeeds or ends run_app.  The key of the pass before is gone.
UiPoll ==
    /\ ui_pc = "poll"
    /\ IF auth_receiver # 0 /\ chan[auth_receiver] # <<>>
       THEN LET a == auth_receiver
                msg == TryRecv(chan[a])
            IN /\ chan' = [chan EXCEPT ![a] = Tail(@)]
               /\ status_message' = IF msg = "Cleared" THEN "None" ELSE msg
               /\ \/ /\ ui_pc' = "read"
                     /\ IF msg = "Cleared"
                        THEN /\ auth_receiver' = 0
                             /\ receiver' = [receiver EXCEPT ![a] = "dropped"]
                        ELSE UNCHANGED <<auth_receiver, receiver>>
                  \/ RunAppEnds
       ELSE /\ UNCHANGED <<chan, status_message>>
            /\ \/ ui_pc' = "read" /\ UNCHANGED <<auth_receiver, receiver>>
               \/ RunAppEnds
    /\ last_key' = NoKey
    /\ UNCHANGED <<input_mode, attempts, tpc, notified, auth,
                   authenticator, x_started, desktop_started, x_stopped>>
    /\ UNCHANGED nonUi

\* (KeyCode::Enter, &InputMode::Password): the selected window manager is
\* unwrapped, which panics when none is selected; else a new channel, whose
\* Receiver replaces (and so drops) the one held, and a new thread running
\* login.
Submit ==
    \/ /\ attempts < MaxAttempts
       /\ LET a == attempts + 1
          IN /\ attempts' = a
             /\ auth_receiver' = a
             /\ receiver' = [r \in Att |->
                   IF r = a THEN "held"
                   ELSE IF r = auth_receiver THEN "dropped" ELSE receiver[r]]
             /\ tpc' = [tpc EXCEPT ![a] = "spawned"]
       /\ ui_pc' = "poll"
    \/ /\ RunAppEnds
       /\ UNCHANGED <<attempts, tpc>>

\* event::read()? fails and ends run_app, or returns a key and the match
\* dispatches it.
UiKey ==
    /\ ui_pc = "read"
    /\ \/ /\ RunAppEnds
          /\ UNCHANGED <<input_mode, status_message, last_key, attempts,
                         taskVars>>
       \/ \E key \in Keys :
            /\ last_key' = key
            /\ IF IsSubmit(key, input_mode)
               THEN /\ Submit
                    /\ UNCHANGED <<input_mode, status_message, chan, notified,
                                   auth, authenticator, x_started,
                                   desktop_started, x_stopped>>
               ELSE /\ input_mode' = KeyMode(key, input_mode)
                    /\ ui_pc' = "poll"
                    /\ UNCHANGED <<status_message, auth_receiver, attempts,
                                   receiver, taskVars>>
    /\ UNCHANGED nonUi

UiNext ==
    UiPoll \/ UiKey \/ \E a \in Att : TaskNext(a)

UiSpec == Init /\ [][UiNext]_vars

\* ------------------------------------------------- the IpcRequest conversions
Bytes == 0..255

CodecInit ==
    /\ codec_out = "unset"
    /\ \/ codec_msg \in {"Logout", "Ack"} /\ codec_byte = -1
       \/ codec_msg = "none" /\ codec_byte \in Bytes

\* u8::from(msg)
CodecEncode ==
    /\ codec_msg # "none" /\ codec_byte = -1
    /\ codec_byte' = From(codec_msg)
    /\ UNCHANGED <<codec_msg, codec_out>>
    /\ UNCHANGED nonCodec

\* IpcRequest::try_from(byte)
CodecDecode ==
    /\ codec_byte # -1 /\ codec_out = "unset"
    /\ codec_out' = TryFrom(codec_byte)
    /\ UNCHANGED <<codec_msg, codec_byte>>
    /\ UNCHANGED nonCodec

CodecNext == CodecEncode \/ CodecDecode

CodecSpecInit == IpcInit /\ UiInit /\ CodecInit

CodecSpec == CodecSpecInit /\ [][CodecNext]_vars

\* ----------------------------------------------------------------- claims
Stopped == {"killed", "kill_failed"}
IsLogout(item) == item.ev = "Read1" /\ item.b = 0
IsAck(item) == item.ev = "Read1" /\ item.b = 1

\* block_handle of call s takes the next incoming item in this step.
TakesItem(s) ==
    /\ spc[s] = "block_handle"
    /\ inbox_listener = s
    /\ inbox_q # <<>>
    /\ inbox_q' = Tail(inbox_q)

\* C1: when the display server was started and starting the desktop fails,
\* x_server.kill has been invoked by the time start returns XStartEnvError.
C1_XServerKilledOnDesktopFailure ==
    \A s \in Sup : sres[s] = "XStartEnvError" => x_server[s] \in Stopped

\* C2 as claimed: the accept loop returns on an incoming item exactly when
\* that item is a Logout message.
C2_ReturnsExactlyOnLogout ==
    [][\A s \in Sup : TakesItem(s) =>
          ((spc'[s] # "block_handle") <=> IsLogout(Head(inbox_q)))]_vars

\* C2 as amended: the accept loop returns on an incoming item exactly when
\* that item is a Logout message and the Ack for it was sent to a listening
\* outbox; every other item, and a Logout whose Ack cannot be sent, leaves
\* the loop running.
C2_ReturnsExactlyOnAckedLogout ==
    [][\A s \in Sup : TakesItem(s) =>
          /\ (spc'[s] # "block_handle") <=>
                (IsLogout(Head(inbox_q)) /\ outbox_listener # 0)
          /\ (spc'[s] # "block_handle") =>
                /\ spc'[s] = "switch_tty"
                /\ outbox_q' = Append(outbox_q, Item(s, "Read1", 1))
          /\ (spc'[s] = "block_handle") => outbox_q' = outbox_q]_vars

\* C2 witness: a loop that returned after going past at least one item.
C2_Witness ==
    \E s \in Sup : spc[s] = "switch_tty" /\ ignored[s] >= 1

\* C3: send_for_logout, once its Logout is sent, always returns.
C3_AlwaysReturns ==
    \A c \in Cli : (cpc[c] = "accept") ~> (cpc[c] = "returned")

\* C4: send_for_logout returns success only if the connection it accepted
\* delivered exactly one byte, Ack; whenever it has returned without such a
\* connection (bind or connect failed, or the reply was anything else), it
\* returned a failure.
C4_SuccessOnlyOnAck ==
    \A c \in Cli :
        /\ cres[c] = "Ok" => IsAck(cconn[c])
        /\ (cpc[c] = "returned" /\ ~IsAck(cconn[c])) => cres[c] \notin {"Ok", "none"}
        /\ cpc[c] # "returned" => cres[c] = "none"

\* C4 witness: one call returned success and another failed.
C4_Witness ==
    \E c, d \in Cli : cres[c] = "Ok" /\ cres[d] \notin {"Ok", "none"}

\* C5: encoding Logout gives 0 and Ack gives 1; decoding 0 gives Logout, 1
\* gives Ack and every byte in 2..255 fails; decoding an encoding gives the
\* message back.
C5_RoundTrip ==
    /\ (codec_msg = "Logout" /\ codec_byte # -1) => codec_byte = 0
    /\ (codec_msg = "Ack" /\ codec_byte # -1) => codec_byte = 1
    /\ codec_out # "unset" =>
          /\ codec_byte = 0 => codec_out = "Logout"
          /\ codec_byte = 1 => codec_out = "Ack"
          /\ codec_byte \in 2..255 => codec_out = "Err"
          /\ codec_msg # "none" => codec_out = codec_msg

\* C5 witness: Ack was encoded and decoded again.
C5_Witness ==
    codec_msg = "Ack" /\ codec_byte # -1 /\ codec_out # "unset"

\* The transition tables of the claim, and the keys that are its moves.
Fwd ==
    [m \in InputMode |->
        IF m = "Normal" THEN "WMSelect"
        ELSE IF m = "WMSelect" THEN "Username" ELSE "Password"]
Bwd ==
    [m \in InputMode |->
        IF m = "Password" THEN "Username"
        ELSE IF m = "Username" THEN "WMSelect" ELSE "Normal"]
ForwardMove(k, m) ==
    \/ k.code = "Down" /\ ~k.shift
    \/ k.code = "Tab" /\ ~k.shift
    \/ k.code = "Enter" /\ ~k.shift /\ m # "Password"
BackwardMove(k) ==
    \/ k.code = "Up"
    \/ k.code = "Tab" /\ k.shift

\* C6: a forward move (Down, Tab, Enter outside Password) takes Normal to
\* WMSelect, WMSelect to Username, Username to Password and leaves Password;
\* a backward move (Up, Shift+Tab) takes Password to Username, Username to
\* WMSelect, WMSelect to Normal and leaves Normal; three forward moves from
\* Normal give Password, three backward moves from Password give Normal, and
\* the focus is always one of the four values.
C6_FocusTransitions ==
    /\ [](/\ input_mode \in InputMode
          /\ InputMode_next(InputMode_next(InputMode_next("Normal"))) = "Password"
          /\ InputMode_prev(InputMode_prev(InputMode_prev("Password"))) = "Normal")
    /\ [][(ui_pc = "read" /\ ui_pc' = "poll") =>
            /\ ForwardMove(last_key', input_mode) => input_mode' = Fwd[input_mode]
            /\ BackwardMove(last_key') => input_mode' = Bwd[input_mode]]_vars

\* C6 witness: a forward move made in Password focus, which three forward
\* moves from Normal had reached.
C6_Witness ==
    /\ input_mode = "Password" /\ ui_pc = "poll"
    /\ last_key = [code |-> "Tab", shift |-> FALSE]

\* C7: the first notification of an attempt is Authenticating, none of
\* PamError, FailedGraphicalEnvironment, FailedDesktop and Cleared comes
\* first; when open_session failed, PamError is the attempt's last
\* notification, no LoggingIn, FailedGraphicalEnvironment, FailedDesktop or
\* Cleared is among them, and neither display server nor desktop was started.
C7_AuthenticatingFirstFailedLast ==
    \A a \in Att :
        /\ notified[a] # <<>> => notified[a][1] = "Authenticating"
        /\ auth[a] = "failed" =>
              /\ notified[a] # <<>>
              /\ notified[a][Len(notified[a])] = "PamError"
              /\ \A i \in 1..Len(notified[a]) :
                    notified[a][i] \notin {"LoggingIn", "FailedGraphicalEnvironment",
                                           "FailedDesktop", "Cleared"}
              /\ ~x_started[a] /\ ~desktop_started[a]

\* C8: at most one start call binds the inbox path; a call whose bind fails
\* gets address-in-use, returns OpenInbox with no display server or desktop
\* started, and its failure leaves the holder's listener and its pending
\* connections as they were.
C8_OneInboxListener ==
    /\ [](/\ Cardinality({s \in Sup : sbind[s] = "Ok"}) <= 1
          /\ \A s \in Sup :
                /\ sbind[s] \in {"none", "Ok", "AddrInUse"}
                /\ sbind[s] = "AddrInUse" =>
                      /\ sres[s] = "OpenInbox"
                      /\ x_server[s] = "none"
                      /\ gui_environment[s] = "none"
                /\ inbox_listener = s => sbind[s] = "Ok")
    /\ [][\A s \in Sup : (sbind[s] = "none" /\ sbind'[s] = "AddrInUse") =>
              /\ inbox_listener' = inbox_listener
              /\ inbox_q' = inbox_q
              /\ \A o \in Sup \ {s} : spc'[o] = spc[o]]_vars

\* C8 witness: after the second call failed to bind, the first is in its
\* accept loop with a Logout of send_for_logout pending and the outbox bound.
C8_Witness ==
    \E s, o \in Sup :
        /\ sbind[o] = "AddrInUse"
        /\ inbox_listener = s /\ spc[s] = "block_handle"
        /\ inbox_q # <<>> /\ IsLogout(Head(inbox_q)) /\ Head(inbox_q).from # 0
        /\ outbox_listener # 0

\* C9: once the accept loop has stopped, the teardown steps are attempted in
\* the order tty, desktop, display server, each once, whatever the outcome of
\* the earlier ones, and start then returns Ok.
C9_TeardownOrder ==
    \A s \in Sup :
        /\ spc[s] \in {"idle", "setup_x", "start_env", "block_handle", "switch_tty"}
              => teardown[s] = <<>>
        /\ spc[s] = "kill_gui" => teardown[s] = <<"tty">>
        /\ spc[s] = "kill_x" => teardown[s] = <<"tty", "gui">>
        /\ (spc[s] = "returned" /\ gui_environment[s] # "none") =>
              /\ teardown[s] = <<"tty", "gui", "x">>
              /\ tty[s] # "none"
              /\ gui_environment[s] \in Stopped
              /\ x_server[s] \in Stopped
              /\ sres[s] = "Ok"
        /\ sres[s] = "Ok" => teardown[s] = <<"tty", "gui", "x">>

\* C9 witness: start returned Ok although the tty switch and the desktop
\* kill had failed.
C9_Witness ==
    \E s \in Sup :
        /\ sres[s] = "Ok" /\ tty[s] = "failed"
        /\ gui_environment[s] = "kill_failed" /\ x_server[s] \in Stopped

\* C10: whenever start has returned, by Ok, by any of its errors or by the
\* panic of an unimplemented session kind, user_info has been dropped.
C10_UserInfoDropped ==
    \A s \in Sup :
        /\ spc[s] = "returned" => user_info[s] = "dropped"
        /\ user_info[s] = "valid" =>
              spc[s] \notin {"idle", "returned"} /\ sres[s] = "none"

\* C10 witness: every exit of start was taken by some call.
C10_Witness ==
    \E s, o \in Sup :
        /\ sres[s] \in {"XSetupError", "XStartEnvError"}
        /\ sres[o] \in {"panic", "OpenInbox"}
        /\ user_info[s] = "dropped" /\ user_info[o] = "dropped"

\* C11: an attempt's Cleared notification is sent only after its session ran
\* (the desktop was entered and returned) and after the graphical environment
\* has been stopped.
C11_ClearedAfterStop ==
    \A a \in Att :
        (\E i \in 1..Len(notified[a]) : notified[a][i] = "Cleared") =>
            desktop_started[a] /\ x_stopped[a]

\* try_recv of the loop's head finds the held attempt's channel empty and
\* closed: the task has ended and everything it sent was consumed.
PollsClosed(a) ==
    /\ ui_pc = "poll" /\ ui_pc' = "read"
    /\ auth_receiver = a
    /\ chan[a] = <<>>
    /\ tpc[a] \in {"done", "panicked"}

\* C12: the loop lets go of the held Receiver when the polled channel delivers
\* Cleared and when it finds the channel closed (the task ended after
\* PamError, FailedGraphicalEnvironment or FailedDesktop); once a task has
\* ended and the loop has polled past its last notification, the loop does
\* not hold that attempt's Receiver.
C12_ForgetsOnClearedOrClosed ==
    [][\A a \in Att :
          /\ (ui_pc = "poll" /\ ui_pc' = "read" /\ auth_receiver = a
                /\ chan[a] # <<>> /\ Head(chan[a]) = "Cleared")
                => (auth_receiver' = 0 /\ receiver'[a] = "dropped")
          /\ PollsClosed(a) => (auth_receiver' = 0 /\ receiver'[a] = "dropped")]_vars

\* The keys that produce a forward action, with Shift held.
ShiftedForward(k, m) ==
    /\ k.shift
    /\ \/ k.code \in {"Down", "Tab"}
       \/ k.code = "Enter" /\ m # "Password"

\* C13: a key that produces a forward action (Enter outside Password focus,
\* Down, Tab) pressed with Shift held moves the focus backward.
C13_ShiftReversesEveryForwardKey ==
    [][(ui_pc = "read" /\ ui_pc' = "poll"
          /\ ShiftedForward(last_key', input_mode))
        => input_mode' = Bwd[input_mode]]_vars

\* C14: main's logout branch exits with code 0 only after send_for_logout
\* returned Ok; when send_for_logout failed with PermissionDenied (which only
\* the outbox bind and the inbox connect produce) it exits with code 1 and
\* the no-permission message, never the generic one; for every other failure
\* it exits with code 1 and the generic message carrying the error itself.
C14_LogoutExitContract ==
    /\ [](\A c \in Cli :
            /\ cpc[c] # "returned" => cexit[c] = NoExit
            /\ cpc[c] = "returned" => cexit[c].code \in {0, 1}
            /\ cexit[c].code = 0 <=> cres[c] = "Ok"
            /\ cexit[c].code = 0 => IsAck(cconn[c])
            /\ cres[c] = "PermissionDenied" =>
                  /\ cexit[c].code = 1
                  /\ cexit[c].msg = "No permission to logout"
            /\ cres[c] \notin {"none", "Ok", "PermissionDenied"} =>
                  /\ cexit[c].code = 1
                  /\ cexit[c].msg = "Failed to communicate with Lemurs session"
                  /\ cexit[c].reason = cres[c])
    /\ [][\A c \in Cli :
            (cres[c] = "none" /\ cres'[c] = "PermissionDenied")
                => cpc[c] \in {"idle", "send"}]_vars

\* C14 witness: one logout process was refused for lack of permission and
\* exited with code 1, another got its Ack and exited with code 0.
C14_Witness ==
    \E c, d \in Cli :
        /\ cres[c] = "PermissionDenied"
        /\ cexit[c].msg = "No permission to logout" /\ cexit[c].code = 1
        /\ cres[d] = "Ok" /\ cexit[d].code = 0

\* The calls of start made on the Wayland or the Shell variant.
Unsupported(s) == skind[s] \in {"Wayland", "Shell"}

AcksLogoutOf(s, c) ==
    /\ TakesItem(s)
    /\ Head(inbox_q).from = c
    /\ outbox_q' = Append(outbox_q, Item(s, "Read1", 1))

\* C16: send_for_logout binds the outbox, then sends Logout, then accepts one
\* connection: a call that is sending or accepting holds the outbox listener,
\* every Logout of a call in the inbox was written after that call's bind,
\* and a connection is only accepted after the Logout was sent; whenever
\* start sends Ack in reply to a call's Logout the outbox path is bound, by
\* that call if it is still waiting; and a call whose bind fails returns an
\* error with the inbox, its pending connections and every start call
\* unchanged.
C16_BindSendAccept ==
    /\ [](\A c \in Cli :
            /\ cpc[c] \in {"send", "accept"} => (outbox_file /\ outbox_listener = c)
            /\ \A i \in 1..Len(inbox_q) :
                  inbox_q[i].from = c =>
                      (outbox_file /\ cpc[c] \in {"accept", "returned"})
            /\ cconn[c] # NoItem => cpc[c] = "returned")
    /\ [][\A s \in Sup, c \in Cli : AcksLogoutOf(s, c) =>
            /\ outbox_file /\ outbox_listener # 0
            /\ cpc[c] = "accept" => outbox_listener = c]_vars
    /\ [][\A c \in Cli : (cpc[c] = "idle" /\ cpc'[c] = "returned") =>
            /\ cres'[c] \in {"AddrInUse", "PermissionDenied"}
            /\ UNCHANGED <<fsVars, supVars>>]_vars

\* C16 witness: start has sent Ack in reply to the Logout of a call that is
\* waiting on its outbox, while the other call's bind had failed.
C16_Witness ==
    \E c, d \in Cli, s \in Sup :
        /\ cpc[c] = "accept" /\ outbox_listener = c
        /\ outbox_q # <<>> /\ outbox_q[Len(outbox_q)] = Item(s, "Read1", 1)
        /\ spc[s] \notin {"idle", "setup_x", "start_env", "block_handle"}
        /\ cres[d] = "AddrInUse"

\* The attempts whose login thread was spawned.
Started == {a \in Att : tpc[a] # "unspawned"}

\* C17: a login task is started only by Enter in Password focus; in Normal,
\* WMSelect and Username focus no key starts one; a submission makes one new
\* channel, empty and with its Receiver held by the loop, and spawns one
\* task, no step other than a submission spawns a task, and the tasks ever
\* started are as many as the submissions.  (An Enter in Password focus after
\* which the loop goes on is a submission; one that unwinds run_app at the
\* unwrap of the selection makes no channel and starts no task.)
C17_SubmitOnlyFromPassword ==
    /\ [](Cardinality(Started) = attempts /\ Started = 1..attempts)
    /\ [][Started' # Started =>
            /\ ui_pc = "read"
            /\ last_key'.code = "Enter" /\ input_mode = "Password"
            /\ input_mode' = input_mode
            /\ attempts' = attempts + 1
            /\ Started' = Started \cup {attempts'}
            /\ tpc'[attempts'] = "spawned"
            /\ chan'[attempts'] = <<>> /\ notified'[attempts'] = <<>>
            /\ receiver[attempts'] = "none" /\ receiver'[attempts'] = "held"
            /\ auth_receiver' = attempts'
            /\ \A a \in Started : tpc'[a] = tpc[a] /\ chan'[a] = chan[a]]_vars
    /\ [][attempts' # attempts => Started' # Started]_vars
    /\ [][(ui_pc = "read" /\ ui_pc' = "poll" /\ input_mode = "Password"
            /\ last_key'.code = "Enter") => attempts' = attempts + 1]_vars

\* C17 witness: two submissions were made and two tasks started, the second
\* while the first task was already past its first step.
C17_Witness ==
    /\ attempts = 2 /\ Cardinality(Started) = 2
    /\ tpc[2] = "spawned" /\ tpc[1] \notin {"unspawned", "spawned"}
    /\ input_mode = "Password"

\* C18: the loop holds at most one attempt's Receiver, and only the latest
\* attempt's; every status it displays after a submission was sent by the
\* latest attempt; an attempt replaced by a later submission is not cancelled:
\* its task never aborts, it goes on to its terminal notification.
C18_LastSubmittedWins ==
    /\ [](/\ Cardinality({a \in Att : receiver[a] = "held"}) <= 1
          /\ auth_receiver \in {0, attempts}
          /\ \A a \in Att : receiver[a] = "held" => auth_receiver = a)
    /\ [][status_message' # status_message =>
            /\ auth_receiver = attempts /\ attempts # 0
            /\ chan[attempts] # <<>>
            /\ status_message' \in {Head(chan[attempts]), "None"}]_vars
    /\ [](\A a \in Att : a < attempts => tpc[a] # "panicked")

\* The attempts whose task is in flight, and the place where each is blocked.
InFlight == {a \in Att : tpc[a] \in {"open_session", "x_start", "desktop", "stop"}}

\* The keys that move the focus or edit a field: all but a submission.
NotSubmit(k) == ~IsSubmit(k, input_mode)

\* C19: while an attempt's task is in flight, in open_session, in the start
\* of the graphical environment, in the desktop (which returns at logout) or
\* in the stop, a running loop is never held up: at its head it can poll and
\* draw whether or not a notification is there, and in event::read it can
\* take every key that moves the focus or edits a field, with the effect the
\* key has; and no step of the loop changes where a task is.
C19_LoopNeverBlocked ==
    /\ [](InFlight # {} =>
            /\ ui_pc = "poll" => ENABLED (UiPoll /\ ui_pc' = "read")
            /\ ui_pc = "read" =>
                  \A k \in Keys : NotSubmit(k) =>
                      ENABLED (UiKey /\ last_key' = k
                                 /\ input_mode' = KeyMode(k, input_mode)))
    /\ [][ui_pc' # ui_pc => \A a \in InFlight : tpc'[a] = tpc[a]]_vars

\* C19 witness: while a task is in the desktop, with nothing left to poll,
\* the loop has taken Esc in Password focus and gone back to Normal.
C19_Witness ==
    /\ \E a \in Att : tpc[a] = "desktop" /\ auth_receiver = a /\ chan[a] = <<>>
    /\ ui_pc = "poll"
    /\ input_mode = "Normal" /\ last_key.code = "Esc"
    /\ status_message = "LoggingIn"

\* C20: when the inbox bind or the chown after it fails, start returns
\* OpenInbox and has started neither display server nor desktop; when
\* x::setup_x fails, start returns XSetupError, no display server is running,
\* the desktop was never started and the accept loop never entered; in both
\* cases no teardown step is attempted and the call does nothing more.
C20_StartupFailuresAbort ==
    /\ [](\A s \in Sup :
            /\ sbind[s] \notin {"none", "Ok"} => sres[s] = "OpenInbox"
            /\ sres[s] = "OpenInbox" =>
                  /\ spc[s] = "returned" /\ inbox_listener # s
                  /\ x_server[s] = "none" /\ gui_environment[s] = "none"
                  /\ teardown[s] = <<>> /\ ignored[s] = 0 /\ tty[s] = "none"
            /\ sres[s] = "XSetupError" =>
                  /\ spc[s] = "returned" /\ inbox_listener # s
                  /\ sbind[s] = "Ok"
                  /\ x_server[s] = "none" /\ gui_environment[s] = "none"
                  /\ teardown[s] = <<>> /\ ignored[s] = 0 /\ tty[s] = "none")
    /\ [][\A s \in Sup :
            /\ (spc[s] = "idle" /\ spc'[s] = "returned" /\ skind'[s] = "X")
                  => sres'[s] = "OpenInbox"
            /\ (spc[s] = "setup_x" /\ spc'[s] = "returned")
                  => sres'[s] = "XSetupError"
            /\ spc'[s] = "block_handle" => gui_environment'[s] = "running"
            /\ sres[s] \in {"OpenInbox", "XSetupError"} =>
                  UNCHANGED <<spc[s], sres[s], x_server[s], gui_environment[s]>>]_vars

\* C20 witness: one call returned XSetupError, and a later call failed to
\* bind the inbox path and returned OpenInbox.
C20_Witness ==
    \E s, o \in Sup :
        /\ sres[s] = "XSetupError"
        /\ sres[o] = "OpenInbox" /\ sbind[o] = "AddrInUse"

\* The notifications that end an attempt, and the positions of an ended task.
Terminal == {"PamError", "FailedGraphicalEnvironment", "FailedDesktop", "Cleared"}
Ended == {"done", "panicked"}
TerminalsOf(a) == {i \in 1..Len(notified[a]) : notified[a][i] \in Terminal}

\* C21: while the process runs (run_app has not ended), LoggingIn is notified
\* before graphical_environment.start is called; a failed start of the
\* graphical environment leaves FailedGraphicalEnvironment as the attempt's
\* last notification and a failed desktop leaves FailedDesktop as its last;
\* every attempt that has ended notified exactly one of PamError,
\* FailedGraphicalEnvironment, FailedDesktop and Cleared, and nothing after it.
C21_OneTerminalNotification ==
    /\ [](ui_pc # "ended" => \A a \in Att :
            /\ (tpc[a] \in {"x_start", "desktop", "stop"} \/ x_started[a]) =>
                  \E i \in 1..Len(notified[a]) : notified[a][i] = "LoggingIn"
            /\ Cardinality(TerminalsOf(a)) <= 1
            /\ TerminalsOf(a) \subseteq {Len(notified[a])}
            /\ tpc[a] \in Ended => Cardinality(TerminalsOf(a)) = 1)
    /\ [][ui_pc # "ended" => \A a \in Att :
            /\ (tpc[a] = "x_start" /\ tpc'[a] \in Ended) =>
                  notified'[a][Len(notified'[a])] = "FailedGraphicalEnvironment"
            /\ (tpc[a] = "desktop" /\ tpc'[a] \in Ended) =>
                  notified'[a][Len(notified'[a])] = "FailedDesktop"]_vars

\* block_handle of call s takes a Logout in this step while no listener is
\* bound to the outbox path: message_to_outbox(Ack) fails.
TakesUnackedLogout(s) ==
    /\ TakesItem(s)
    /\ IsLogout(Head(inbox_q))
    /\ ConnectResult(outbox_file, outbox_listener) # "Ok"

\* C22: a Logout whose Ack cannot be sent (the outbox path is missing, or no
\* listener is bound to it) does not end the accept loop: the loop goes on
\* with its listener and the connections still pending, the display server
\* and the desktop keep running, nothing is sent, no teardown step runs and
\* start does not return; a Logout taken later whose Ack is delivered still
\* stops the loop.
C22_FailedAckIsRecoverable ==
    /\ [][\A s \in Sup : TakesUnackedLogout(s) =>
            /\ spc'[s] = "block_handle" /\ sres'[s] = "none"
            /\ inbox_listener' = s /\ inbox_q' = Tail(inbox_q)
            /\ x_server'[s] = "running" /\ gui_environment'[s] = "running"
            /\ teardown'[s] = <<>> /\ tty'[s] = "none"
            /\ outbox_q' = outbox_q
            /\ nacked'[s]]_vars
    /\ [](\A s \in Sup : (nacked[s] /\ spc[s] = "block_handle") =>
            /\ x_server[s] = "running" /\ gui_environment[s] = "running"
            /\ teardown[s] = <<>> /\ inbox_listener = s)
    /\ [][\A s \in Sup :
            (nacked[s] /\ TakesItem(s) /\ IsLogout(Head(inbox_q))
               /\ ConnectResult(outbox_file, outbox_listener) = "Ok")
            => spc'[s] = "switch_tty"]_vars

\* C22 witness: the loop went past a Logout whose Ack could not be sent, and
\* a later Logout, acknowledged, stopped it: teardown has begun and the Ack
\* was accepted by send_for_logout.
C22_Witness ==
    \E s \in Sup, c \in Cli :
        /\ nacked[s] /\ teardown[s] # <<>>
        /\ cres[c] = "Ok" /\ cconn[c].from = s

\* C23: once a start call has returned Ok (its session ran to logout and was
\* torn down), a following start call on X binds the inbox path; and once a
\* send_for_logout call has returned Ok, a following call binds the outbox
\* path: neither gets address-in-use.
C23_SessionsOneAfterAnother ==
    [][/\ \A s \in Sup :
            (spc[s] = "idle" /\ spc'[s] # "idle" /\ skind'[s] = "X"
               /\ \E o \in Sup : sres[o] = "Ok")
            => sbind'[s] = "Ok"
       /\ \A c \in Cli :
            (cpc[c] = "idle" /\ cpc'[c] # "idle"
               /\ \E d \in Cli : cres[d] = "Ok")
            => cres'[c] # "AddrInUse"]_vars

\* How many of attempt a's notifications the loop has taken from its
\* channel, and what the loop displays for a notification.
Consumed(a) == Len(notified[a]) - Len(chan[a])
Shown(msg) == IF msg = "Cleared" THEN "None" ELSE msg

\* C24: one pass of the loop takes at most one notification before it waits
\* in event::read, only from the attempt whose Receiver it holds, and always
\* the oldest not yet taken, so notifications are taken in the order the
\* task sent them; the status displayed for the held attempt is the one
\* taken last, never an older one.
C24_OnePerPassInOrder ==
    /\ [](\A a \in Att :
            /\ Consumed(a) \in 0..Len(notified[a])
            /\ chan[a] = SubSeq(notified[a], Consumed(a) + 1, Len(notified[a])))
    /\ []((auth_receiver # 0 /\ Consumed(auth_receiver) > 0) =>
            status_message = Shown(notified[auth_receiver][Consumed(auth_receiver)]))
    /\ [][\A a \in Att :
            (Len(notified'[a]) - Len(chan'[a]) # Consumed(a)) =>
                /\ ui_pc = "poll" /\ ui_pc' # "poll"
                /\ auth_receiver = a
                /\ Len(notified'[a]) - Len(chan'[a]) = Consumed(a) + 1
                /\ notified'[a] = notified[a]
                /\ status_message' = Shown(notified[a][Consumed(a) + 1])
                /\ \A o \in Att \ {a} : chan'[o] = chan[o]]_vars

\* C24 witness: with three notifications sent before the loop polled, one
\* pass took the first, displays it, and waits for a key with two pending.
C24_Witness ==
    \E a \in Att :
        /\ ui_pc = "read" /\ auth_receiver = a
        /\ Len(notified[a]) = 3 /\ Len(chan[a]) = 2
        /\ status_message = "Authenticating"

====
